---- MODULE Spec2Model ----
(***************************************************************************)
(* Model of src/sys/wait.rs: the three platform `status` decoders, decode, *)
(* the PidGroup <-> i32 conversions and waitpid.                           *)
(*                                                                         *)
(* i32 values are TLA+ integers in -2^31 .. 2^31-1.  A u32 value does not  *)
(* fit TLC's 32-bit integers, so a u32 is the pair <<hi, lo>> of its two *)
(* 16-bit halves (value = hi * 2^16 + lo).                                 *)
(***************************************************************************)
EXTENDS Integers, FiniteSets, Sequences, TLC

VARIABLES platform,         \* which `mod status` the build selected (cfg)
          overflow_checks,  \* build profile: TRUE = arithmetic overflow panics
          pc,               \* position of the current call
          pid_arg,          \* the PidGroup handed to waitpid / Into<i32>
          raw_pid,          \* result of pid.into(): the i32 given to libc
          back,             \* result of PidGroup::from(i32)
          options,          \* the c_int option bits given to libc
          res,              \* return value of libc::waitpid / the pid of decode
          status,           \* the raw status word
          errno,            \* the process-wide error code
          calls,            \* invocations of libc::waitpid in the current call
          decoded,          \* what decode returned in the current call
          ret               \* what waitpid returned

vars == <<platform, overflow_checks, pc, pid_arg, raw_pid, back, options,
          res, status, errno, calls, decoded, ret>>

----------------------------------------------------------------------------
(* Bounds of the model *)

MaxPid == 1      \* process identifiers 1 .. MaxPid are returned by the kernel
MaxAux == 1      \* bits 16+ of a status word range over -MaxAux .. MaxAux (and the extremes)
MaxId  == 3      \* u32 identifiers within MaxId of 0, 2^31 and 2^32 are tried

----------------------------------------------------------------------------
(* Machine arithmetic *)

MinI32 == -2147483647 - 1

\* x & m for an i32 x (two's complement) and a mask m >= 0
RECURSIVE BitAnd(_, _)
BitAnd(x, m) == IF m = 0 THEN 0
                ELSE (x % 2) * (m % 2) + 2 * BitAnd(x \div 2, m \div 2)

\* x >> n on a signed integer: arithmetic shift
Shr(x, n) == x \div (2 ^ n)

\* `x as i8`: keep the low 8 bits, reinterpret as signed
AsI8(x) == LET m == x % 256 IN IF m >= 128 THEN m - 256 ELSE m

\* `n as i32` for a u32 n = <<hi, lo>>: same bits, reinterpreted
U32AsI32(n) == (IF n[1] >= 32768 THEN n[1] - 65536 ELSE n[1]) * 65536 + n[2]

\* `x as u32` for an i32 x: same bits, reinterpreted
I32AsU32(x) == <<(x \div 65536) % 65536, x % 65536>>

\* the outcome of an operation that may panic
Val(v)     == [panic |-> FALSE, v |-> v]
Unwind     == [panic |-> TRUE, v |-> 0]

\* unary minus on an i32: -MinI32 overflows; it panics when the build checks
\* overflow and wraps to MinI32 otherwise
NegI32(x, checks) == IF x = MinI32
                     THEN (IF checks THEN Unwind ELSE Val(MinI32))
                     ELSE Val(-x)

----------------------------------------------------------------------------
(* sys::signal (not in this file): Signal::from_c_int and the signal numbers *)

None    == 0                 \* from_c_int failed: no such Signal
NSIG    == 32                \* the Signal enum holds the signals 1 .. NSIG-1
Signals == 1 .. (NSIG - 1)

from_c_int(n) == IF n \in Signals THEN n ELSE None

SIGCONT_macos == 19
SIGSTOP_linux == 19

\* bool -> the three outcomes of a predicate that may panic
B3(b) == IF b THEN "true" ELSE "false"

----------------------------------------------------------------------------
(* mod status, target_os = linux / android *)

linux_exited(s)      == BitAnd(s, 127) = 0

linux_exit_status(s) == AsI8(Shr(BitAnd(s, 65280), 8))

linux_signaled_no_increment(s) == Shr(AsI8(BitAnd(s, 127)), 1) > 0

linux_signaled(s)    == Shr(AsI8(BitAnd(s, 127) + 1), 1) > 0

\* the Option<Signal> that term_signal unwraps
linux_term_signal(s) == from_c_int(BitAnd(s, 127))

linux_dumped_core(s) == BitAnd(s, 128) # 0

linux_stopped(s)     == BitAnd(s, 255) = 127

linux_stop_signal_unmasked(s) == from_c_int(Shr(s, 8))

\* the Option<Signal> that stop_signal unwraps
linux_stop_signal(s) == from_c_int(Shr(BitAnd(s, 65280), 8))

linux_stop_additional(s) == Shr(s, 16)

linux_continued(s)   == s = 65535

----------------------------------------------------------------------------
(* mod status, target_os = macos / ios *)

macos_WCOREFLAG == 128
macos_WSTOPPED  == 127

macos_wstatus(s)     == BitAnd(s, 127)

macos_exit_status(s) == AsI8(BitAnd(Shr(s, 8), 255))

\* the Option<Signal> that stop_signal unwraps
macos_stop_signal(s) == from_c_int(Shr(s, 8))

\* `&&` evaluates stop_signal, and so its unwrap, only when the left side holds
macos_continued(s)   == IF macos_wstatus(s) # macos_WSTOPPED THEN "false"
                        ELSE IF macos_stop_signal(s) = None THEN "panic"
                        ELSE B3(macos_stop_signal(s) = SIGCONT_macos)

macos_stopped_ignoring_sigcont(s) ==
    IF macos_wstatus(s) # macos_WSTOPPED THEN "false"
    ELSE IF macos_stop_signal(s) = None THEN "panic"
    ELSE "true"

macos_stopped(s)     == IF macos_wstatus(s) # macos_WSTOPPED THEN "false"
                        ELSE IF macos_stop_signal(s) = None THEN "panic"
                        ELSE B3(macos_stop_signal(s) # SIGCONT_macos)

macos_exited(s)      == macos_wstatus(s) = 0

macos_signaled(s)    == macos_wstatus(s) # macos_WSTOPPED /\ macos_wstatus(s) # 0

macos_term_signal(s) == from_c_int(macos_wstatus(s))

macos_dumped_core(s) == BitAnd(s, macos_WCOREFLAG) # 0

----------------------------------------------------------------------------
(* mod status, target_os = freebsd / openbsd / dragonfly / netbsd *)

bsd_WCOREFLAG == 128
bsd_WSTOPPED  == 127

bsd_wstatus(s)       == BitAnd(s, 127)

bsd_stopped(s)       == bsd_wstatus(s) = bsd_WSTOPPED

bsd_stop_signal(s)   == from_c_int(Shr(s, 8))

bsd_signaled_without_exclusion(s) == bsd_wstatus(s) # bsd_WSTOPPED /\ bsd_wstatus(s) # 0

bsd_signaled(s)      == bsd_wstatus(s) # bsd_WSTOPPED /\ bsd_wstatus(s) # 0 /\ s # 19

bsd_term_signal(s)   == from_c_int(bsd_wstatus(s))

bsd_exited_whole_word(s) == s = 0

bsd_exited(s)        == bsd_wstatus(s) = 0

bsd_exit_status_untruncated(s) == Shr(s, 8)

bsd_exit_status(s)   == AsI8(Shr(s, 8))

bsd_continued(s)     == s = 19

bsd_dumped_core(s)   == BitAnd(s, bsd_WCOREFLAG) # 0

----------------------------------------------------------------------------
(* `status::f` as the build resolves it *)

Platforms == {"linux", "macos", "bsd"}

status_exited(p, s) ==
    CASE p = "linux" -> linux_exited(s)
      [] p = "macos" -> macos_exited(s)
      [] p = "bsd"   -> bsd_exited(s)

status_exit_status(p, s) ==
    CASE p = "linux" -> linux_exit_status(s)
      [] p = "macos" -> macos_exit_status(s)
      [] p = "bsd"   -> bsd_exit_status(s)

status_signaled(p, s) ==
    CASE p = "linux" -> linux_signaled(s)
      [] p = "macos" -> macos_signaled(s)
      [] p = "bsd"   -> bsd_signaled(s)

status_term_signal(p, s) ==
    CASE p = "linux" -> linux_term_signal(s)
      [] p = "macos" -> macos_term_signal(s)
      [] p = "bsd"   -> bsd_term_signal(s)

status_dumped_core(p, s) ==
    CASE p = "linux" -> linux_dumped_core(s)
      [] p = "macos" -> macos_dumped_core(s)
      [] p = "bsd"   -> bsd_dumped_core(s)

\* "true", "false" or "panic"
status_stopped(p, s) ==
    CASE p = "linux" -> B3(linux_stopped(s))
      [] p = "macos" -> macos_stopped(s)
      [] p = "bsd"   -> B3(bsd_stopped(s))

status_stop_signal(p, s) ==
    CASE p = "linux" -> linux_stop_signal(s)
      [] p = "macos" -> macos_stop_signal(s)
      [] p = "bsd"   -> bsd_stop_signal(s)

\* "true", "false" or "panic"
status_continued(p, s) ==
    CASE p = "linux" -> B3(linux_continued(s))
      [] p = "macos" -> macos_continued(s)
      [] p = "bsd"   -> B3(bsd_continued(s))

----------------------------------------------------------------------------
(* enum WaitStatus, and the two ways decode can abort *)

WS(tag, pid, code, sig, core, aux) ==
    [tag |-> tag, pid |-> pid, code |-> code, sig |-> sig, core |-> core, aux |-> aux]

Exited(pid, code)          == WS("Exited", pid, code, None, FALSE, 0)
Signaled(pid, sig, core)   == WS("Signaled", pid, 0, sig, core, 0)
Stopped(pid, sig)          == WS("Stopped", pid, 0, sig, FALSE, 0)
PtraceEvent(pid, sig, aux) == WS("PtraceEvent", pid, 0, sig, FALSE, aux)
Continued(pid)             == WS("Continued", pid, 0, None, FALSE, 0)
StillAlive                 == WS("StillAlive", 0, 0, None, FALSE, 0)
PanicUnwrap                == WS("panic: unwrap on None", 0, 0, None, FALSE, 0)
PanicAssert                == WS("panic: assertion failed", 0, 0, None, FALSE, 0)
NotDecoded                 == WS("not decoded", 0, 0, None, FALSE, 0)

Classified == {"Exited", "Signaled", "Stopped", "PtraceEvent", "Continued"}
IsPanic(w) == w \in {PanicUnwrap, PanicAssert}

----------------------------------------------------------------------------
(* fn decode *)

decode_stopped(p, pid, s) ==
    IF status_stop_signal(p, s) = None THEN PanicUnwrap
    ELSE IF p = "linux"
         THEN IF linux_stop_additional(s) = 0
              THEN Stopped(pid, status_stop_signal(p, s))
              ELSE PtraceEvent(pid, status_stop_signal(p, s), linux_stop_additional(s))
         ELSE Stopped(pid, status_stop_signal(p, s))

decode_without_assert(p, pid, s) ==
    IF status_exited(p, s) THEN Exited(pid, status_exit_status(p, s))
    ELSE IF status_signaled(p, s)
         THEN IF status_term_signal(p, s) = None THEN PanicUnwrap
              ELSE Signaled(pid, status_term_signal(p, s), status_dumped_core(p, s))
    ELSE IF status_stopped(p, s) = "panic" THEN PanicUnwrap
    ELSE IF status_stopped(p, s) = "true" THEN decode_stopped(p, pid, s)
    ELSE Continued(pid)

decode(p, pid, s) ==
    IF status_exited(p, s) THEN Exited(pid, status_exit_status(p, s))
    ELSE IF status_signaled(p, s)
         THEN IF status_term_signal(p, s) = None THEN PanicUnwrap
              ELSE Signaled(pid, status_term_signal(p, s), status_dumped_core(p, s))
    ELSE IF status_stopped(p, s) = "panic" THEN PanicUnwrap
    ELSE IF status_stopped(p, s) = "true" THEN decode_stopped(p, pid, s)
    ELSE IF status_continued(p, s) = "panic" THEN PanicUnwrap
    ELSE IF status_continued(p, s) = "false" THEN PanicAssert
    ELSE Continued(pid)

----------------------------------------------------------------------------
(* enum PidGroup and its conversions *)

Zero32 == <<0, 0>>

ProcessID(n)      == [variant |-> "ProcessID", id |-> n]
ProcessGroupID(n) == [variant |-> "ProcessGroupID", id |-> n]
AnyGroupChild     == [variant |-> "AnyGroupChild", id |-> Zero32]
AnyChild          == [variant |-> "AnyChild", id |-> Zero32]

\* impl From<i32> for PidGroup; `-pid as u32` is `(-pid) as u32`
from_i32_without_negation(pid, checks) ==
    IF pid > 0 THEN Val(ProcessID(I32AsU32(pid)))
    ELSE IF pid < -1 THEN Val(ProcessGroupID(I32AsU32(pid)))
    ELSE IF pid = 0 THEN Val(AnyGroupChild)
    ELSE Val(AnyChild)

from_i32(pid, checks) ==
    IF pid > 0 THEN Val(ProcessID(I32AsU32(pid)))
    ELSE IF pid < -1
         THEN IF NegI32(pid, checks).panic THEN Unwind
              ELSE Val(ProcessGroupID(I32AsU32(NegI32(pid, checks).v)))
    ELSE IF pid = 0 THEN Val(AnyGroupChild)
    ELSE Val(AnyChild)

\* impl Into<i32> for PidGroup
into_i32(pg, checks) ==
    CASE pg.variant = "ProcessID"      -> Val(U32AsI32(pg.id))
      [] pg.variant = "ProcessGroupID" -> NegI32(U32AsI32(pg.id), checks)
      [] pg.variant = "AnyGroupChild"  -> Val(0)
      [] pg.variant = "AnyChild"       -> Val(-1)

----------------------------------------------------------------------------
(* Inputs *)

\* u32 identifiers around 0, 65536, 2^31 and 2^32 - 1
Ids == {<<0, k>> : k \in 0 .. MaxId}
       \cup {<<1, 0>>}
       \cup {<<32767, 65536 - k>> : k \in 1 .. MaxId}
       \cup {<<32768, k>> : k \in 0 .. MaxId}
       \cup {<<65535, 65535 - k>> : k \in 0 .. MaxId}

PidGroups == {ProcessID(n) : n \in Ids} \cup {ProcessGroupID(n) : n \in Ids}
             \cup {AnyGroupChild, AnyChild}

\* status words: every low byte; in bits 8-15 every signal number, its
\* neighbours and chosen bytes; chosen bits 16-31
MidBytes  == (0 .. NSIG + 1) \cup {42, 127, 128, 255}
HighWords == (-MaxAux .. MaxAux) \cup {-32768, 32767}
Word(lo, mid, hi) == lo + 256 * mid + 65536 * hi
StatusWords == {Word(lo, mid, hi) : lo \in 0 .. 255, mid \in MidBytes, hi \in HighWords}

NoPid == Val(0)
NoBack == Val(AnyChild)
NoRet == [kind |-> "none", val |-> NotDecoded, err |-> "none"]

----------------------------------------------------------------------------
(* SpecDecode: decode applied to every (platform, pid, status word) *)

InitDecode ==
    /\ platform \in Platforms
    /\ overflow_checks = FALSE
    /\ pc = "decode"
    /\ pid_arg = AnyChild
    /\ raw_pid = NoPid
    /\ back = NoBack
    /\ options = {}
    /\ res \in 1 .. MaxPid
    /\ status \in StatusWords
    /\ errno = "none"
    /\ calls = 0
    /\ decoded = NotDecoded
    /\ ret = NoRet

DecodeStep ==
    /\ pc = "decode"
    /\ decoded' = decode(platform, res, status)
    /\ pc' = "decoded"
    /\ UNCHANGED <<platform, overflow_checks, pid_arg, raw_pid, back, options,
                   res, status, errno, calls, ret>>

NextDecode == DecodeStep

SpecDecode == InitDecode /\ [][NextDecode]_vars

----------------------------------------------------------------------------
(* SpecConv: PidGroup -> i32 -> PidGroup *)

InitConv ==
    /\ platform \in Platforms
    /\ overflow_checks \in BOOLEAN
    /\ pc = "conv"
    /\ pid_arg \in PidGroups
    /\ raw_pid = NoPid
    /\ back = NoBack
    /\ options = {}
    /\ res = 0
    /\ status = 0
    /\ errno = "none"
    /\ calls = 0
    /\ decoded = NotDecoded
    /\ ret = NoRet

ConvInto ==
    /\ pc = "conv"
    /\ raw_pid' = into_i32(pid_arg, overflow_checks)
    /\ pc' = "encoded"
    /\ UNCHANGED <<platform, overflow_checks, pid_arg, back, options,
                   res, status, errno, calls, decoded, ret>>

ConvFrom ==
    /\ pc = "encoded"
    /\ ~raw_pid.panic
    /\ back' = from_i32(raw_pid.v, overflow_checks)
    /\ pc' = "round"
    /\ UNCHANGED <<platform, overflow_checks, pid_arg, raw_pid, options,
                   res, status, errno, calls, decoded, ret>>

NextConv == ConvInto \/ ConvFrom

SpecConv == InitConv /\ [][NextConv]_vars

----------------------------------------------------------------------------
(* fn waitpid *)

Flags == {"WNOHANG", "WUNTRACED"}

\* the `options` argument: None, or Some(flags)
OptionArgs == {[some |-> FALSE, flags |-> {}]}
              \cup {[some |-> TRUE, flags |-> f] : f \in SUBSET Flags}

\* options.into().map_or(0, |o| o.bits()): the bit-set, empty for None
option_bits(o) == IF o.some THEN o.flags ELSE {}

Errnos == {"ECHILD", "EINTR", "EINVAL"}

\* Result<WaitStatus>, or the panic that unwinds out of waitpid
Ok(w)   == [kind |-> "Ok", val |-> w, err |-> "none"]
Err(e)  == [kind |-> "Err", val |-> NotDecoded, err |-> e]
Panic   == [kind |-> "panic", val |-> NotDecoded, err |-> "none"]

\* Errno::result(res): a negative result is the error Errno::last()
ErrnoResult(r, e) == IF r < 0 THEN Err(e) ELSE Ok(NotDecoded)

\* what the closure given to map returns for an Ok(res)
waitpid_match_always_decode(p, r, s) == decode(p, r, s)

waitpid_match(p, r, s) == IF r = 0 THEN StillAlive ELSE decode(p, r, s)

\* the PidGroups waitpid is called with
WaitTargets == {ProcessID(<<0, 1>>), ProcessGroupID(<<0, 2>>), AnyGroupChild,
                AnyChild, ProcessGroupID(<<32768, 0>>)}

\* the status words the kernel hands back
KernelWords == {Word(lo, mid, hi) : lo \in {0, 9, 19, 34, 127, 139, 255},
                                    mid \in {0, 19, 42},
                                    hi \in 0 .. MaxAux}

Init ==
    /\ platform \in Platforms
    /\ overflow_checks \in BOOLEAN
    /\ pc = "idle"
    /\ pid_arg = AnyChild
    /\ raw_pid = NoPid
    /\ back = NoBack
    /\ options = {}
    /\ res = 0
    /\ status = 0
    /\ errno = "none"
    /\ calls = 0
    /\ decoded = NotDecoded
    /\ ret = NoRet

\* lines 306-309 up to the foreign call: status = 0, the option bits, pid.into()
WaitpidCall ==
    /\ pc \in {"idle", "returned"}
    /\ \E pg \in WaitTargets, o \in OptionArgs :
         /\ pid_arg' = pg
         /\ options' = option_bits(o)
         /\ raw_pid' = into_i32(pg, overflow_checks)
         /\ IF into_i32(pg, overflow_checks).panic
            THEN pc' = "returned" /\ ret' = Panic
            ELSE pc' = "called" /\ ret' = NoRet
    /\ status' = 0
    /\ res' = 0
    /\ calls' = 0
    /\ decoded' = NotDecoded
    /\ UNCHANGED <<platform, overflow_checks, back, errno>>

\* libc::waitpid(pid, &mut status, options): the kernel's answer
LibcWaitpid ==
    /\ pc = "called"
    /\ calls' = calls + 1
    /\ pc' = "answered"
    /\ \/ \E e \in Errnos :
            /\ e = "EINTR" => "WNOHANG" \notin options
            /\ res' = -1
            /\ errno' = e
            /\ status' = status
       \/ /\ "WNOHANG" \in options
          /\ res' = 0
          /\ status' \in {status, Word(127, 19, 0)}
          /\ errno' = errno
       \/ \E p \in 1 .. MaxPid, s \in KernelWords :
            /\ res' = p
            /\ status' = s
            /\ errno' = errno
    /\ UNCHANGED <<platform, overflow_checks, pid_arg, raw_pid, back, options,
                   decoded, ret>>

\* a waitpid that calls again when interrupted
WaitpidReturnRetry ==
    /\ pc = "answered"
    /\ IF res < 0 /\ errno = "EINTR"
       THEN pc' = "called" /\ UNCHANGED <<decoded, ret>>
       ELSE /\ pc' = "returned"
            /\ decoded' = IF res > 0 THEN decode(platform, res, status) ELSE NotDecoded
            /\ ret' = IF res < 0 THEN Err(errno)
                      ELSE IF res = 0 THEN Ok(StillAlive)
                      ELSE IF IsPanic(decode(platform, res, status)) THEN Panic
                      ELSE Ok(decode(platform, res, status))
    /\ UNCHANGED <<platform, overflow_checks, pid_arg, raw_pid, back, options,
                   res, status, errno, calls>>

\* lines 311-314: Errno::result(res).map(|res| match res { .. })
WaitpidReturn ==
    /\ pc = "answered"
    /\ pc' = "returned"
    /\ IF ErrnoResult(res, errno).kind = "Err"
       THEN /\ ret' = ErrnoResult(res, errno)
            /\ decoded' = NotDecoded
       ELSE /\ decoded' = IF res = 0 THEN NotDecoded
                          ELSE waitpid_match(platform, res, status)
            /\ ret' = IF IsPanic(waitpid_match(platform, res, status)) THEN Panic
                      ELSE Ok(waitpid_match(platform, res, status))
    /\ UNCHANGED <<platform, overflow_checks, pid_arg, raw_pid, back, options,
                   res, status, errno, calls>>

Next == WaitpidCall \/ LibcWaitpid \/ WaitpidReturn

Spec == Init /\ [][Next]_vars

----------------------------------------------------------------------------
(* Properties of the status decoders and of decode, under SpecDecode *)

Predicates == {"exited", "signaled", "stopped", "continued"}

\* predicate k returns true on status word s of platform p
Holds(p, k, s) ==
    CASE k = "exited"    -> status_exited(p, s)
      [] k = "signaled"  -> status_signaled(p, s)
      [] k = "stopped"   -> status_stopped(p, s) = "true"
      [] k = "continued" -> status_continued(p, s) = "true"

NumTrue(p, s) == Cardinality({k \in Predicates : Holds(p, k, s)})

\* the status words no predicate accepts: on linux a low byte 0xFF other than
\* 0xFFFF, on macos the stop discriminant with an unrecognized signal
Unclassified(p, s) ==
    \/ p = "linux" /\ s % 256 = 255 /\ s # 65535
    \/ p = "macos" /\ s % 128 = 127 /\ (s \div 256) \notin Signals

\* C1 as stated: for every status word of every platform exactly one of
\* exited, signaled, stopped, continued is true.
C1_ExactlyOnePredicate == pc = "decoded" => NumTrue(platform, status) = 1

\* C1 amended: never two predicates are true, and exactly one is true except on
\* the unclassified words (linux: low byte 0xFF and not 0xFFFF; macos: low 7
\* bits 0x7F with an unrecognized signal in status >> 8), where none is.
C1_AtMostOnePredicate ==
    pc = "decoded" =>
      /\ NumTrue(platform, status) <= 1
      /\ NumTrue(platform, status) = 0 <=> Unclassified(platform, status)

C1_Witness ==
    /\ pc = "decoded" /\ platform = "linux" /\ status = 65535
    /\ NumTrue(platform, status) = 1
    /\ decoded = Continued(res)

\* C5: on linux a word with low byte 0x7F, a recognized signal s in bits 8-15
\* and aux in bits 16+ decodes to Stopped(pid, s) when aux = 0 and to
\* PtraceEvent(pid, s, aux) otherwise.
C5_LinuxStoppedOrPtraceEvent ==
    (pc = "decoded" /\ platform = "linux" /\ status % 256 = 127
        /\ (status \div 256) % 256 \in Signals)
    => LET s   == (status \div 256) % 256
           aux == status \div 65536
       IN  IF aux = 0 THEN decoded = Stopped(res, s)
           ELSE decoded = PtraceEvent(res, s, aux)

C5_Witness ==
    /\ pc = "decoded" /\ platform = "linux"
    /\ status = Word(127, SIGSTOP_linux, 1)
    /\ decoded = PtraceEvent(res, SIGSTOP_linux, 1)

\* C6: on macos a word with low 7 bits 0x7F decodes to Continued(pid) when
\* status >> 8 is SIGCONT and to Stopped(pid, s) when status >> 8 is any other
\* recognized signal s.
C6_DarwinContinuedNotStopped ==
    (pc = "decoded" /\ platform = "macos" /\ status % 128 = 127)
    => /\ (status \div 256 = SIGCONT_macos => decoded = Continued(res))
       /\ (status \div 256 \in Signals \ {SIGCONT_macos}
             => decoded = Stopped(res, status \div 256))

C6_Witness ==
    /\ pc = "decoded" /\ platform = "macos"
    /\ status = Word(255, SIGCONT_macos, 0)
    /\ decoded = Continued(res)

\* C7: on every platform a word with zero low 7 bits and byte c in bits 8-15
\* decodes to Exited(pid, c as a signed byte), whatever the other bits are.
C7_ExitCodeIsSignedByte ==
    (pc = "decoded" /\ status % 128 = 0)
    => LET c == (status \div 256) % 256
       IN  decoded = Exited(res, IF c <= 127 THEN c ELSE c - 256)

C7_Witness ==
    /\ pc = "decoded" /\ platform = "bsd"
    /\ status = Word(128, 42, 1)
    /\ decoded = Exited(res, 42)

\* C8: decode returns the variant of the first predicate that holds in the
\* order exited, signaled, stopped, continued; when none holds it aborts
\* (by the assertion when all four returned false) and returns no WaitStatus;
\* it returns Continued only when continued(status) is true.
C8_FirstMatchOrAbort ==
    pc = "decoded" =>
      LET e  == status_exited(platform, status)
          g  == status_signaled(platform, status)
          st == status_stopped(platform, status)
          c  == status_continued(platform, status)
      IN  /\ e <=> decoded.tag = "Exited"
          /\ (~e /\ g) => decoded.tag \in {"Signaled", PanicUnwrap.tag}
          /\ (~e /\ ~g /\ st = "true")
               => decoded.tag \in {"Stopped", "PtraceEvent", PanicUnwrap.tag}
          /\ NumTrue(platform, status) = 0 => IsPanic(decoded)
          /\ (~e /\ ~g /\ st = "false" /\ c = "false") => decoded = PanicAssert
          /\ decoded.tag = "Continued"
               => (c = "true" /\ ~e /\ ~g /\ st = "false" /\ decoded = Continued(res))
          /\ decoded.tag \in Classified \cup {PanicUnwrap.tag, PanicAssert.tag}

C8_Witness ==
    /\ pc = "decoded" /\ platform = "linux"
    /\ status = Word(255, 0, 0)
    /\ NumTrue(platform, status) = 0
    /\ decoded = PanicAssert

\* C9: on linux signaled(status) is true exactly when the low 7 bits of
\* status are in 1 .. 126, whatever the higher bits are.
C9_LinuxSignaledIffLow7In1To126 ==
    (pc = "decoded" /\ platform = "linux")
    => (linux_signaled(status) <=> (status % 128) \in 1 .. 126)

C9_Witness ==
    /\ pc = "decoded" /\ platform = "linux"
    /\ status = Word(9, 0, -1)
    /\ linux_signaled(status)
    /\ decoded = Signaled(res, 9, FALSE)

\* C10 as stated: the bsd and macos decoders agree on exited, stopped,
\* exit_status and dumped_core for every status word.
C10_BsdDarwinAgreeOnFour ==
    (pc = "decoded" /\ platform \in {"bsd", "macos"}) =>
      /\ bsd_exited(status) = macos_exited(status)
      /\ B3(bsd_stopped(status)) = macos_stopped(status)
      /\ bsd_exit_status(status) = macos_exit_status(status)
      /\ bsd_dumped_core(status) = macos_dumped_core(status)

\* C10 amended: the two decoders agree on exited, exit_status and dumped_core
\* for every status word; bsd signaled is macos signaled minus the word 0x13,
\* bsd continued is the word 0x13; stopped agrees except on the words with low
\* 7 bits 0x7F whose status >> 8 is SIGCONT (macos false, bsd true) or is no
\* recognized signal (macos aborts, bsd true).
C10_BsdDarwinAgreeOnThree ==
    (pc = "decoded" /\ platform \in {"bsd", "macos"}) =>
      /\ bsd_exited(status) = macos_exited(status)
      /\ bsd_exit_status(status) = macos_exit_status(status)
      /\ bsd_dumped_core(status) = macos_dumped_core(status)
      /\ bsd_signaled(status) <=> (macos_signaled(status) /\ status # 19)
      /\ bsd_continued(status) <=> status = 19
      /\ B3(bsd_stopped(status)) = macos_stopped(status)
           <=> ~(status % 128 = 127
                 /\ from_c_int(status \div 256) \in {None, SIGCONT_macos})

C10_Witness ==
    /\ pc = "decoded" /\ platform = "bsd"
    /\ status = Word(127, SIGCONT_macos, 0)
    /\ decoded = Stopped(res, SIGCONT_macos)
    /\ macos_stopped(status) = "false"

----------------------------------------------------------------------------
(* Properties of the PidGroup conversions, under SpecConv *)

\* what the round trip is to give: the same PidGroup, or the dedicated
\* variant when the encoding is 0 or -1
Collapsed(pg, raw) == IF raw = 0 THEN AnyGroupChild
                      ELSE IF raw = -1 THEN AnyChild
                      ELSE pg

RoundTrips ==
    /\ pc = "encoded" => ~raw_pid.panic
    /\ pc = "round" => back = Val(Collapsed(pid_arg, raw_pid.v))

----------------------------------------------------------------------------
(* Properties of waitpid, under Spec *)

ErrorReturnedUnmodified ==
    (pc = "returned" /\ res < 0)
    => (ret = Err(errno) /\ errno \in Errnos /\ decoded = NotDecoded)

\* C3 as stated: every call of waitpid invokes libc::waitpid exactly once, and
\* a negative result is returned as the error of errno, undecoded.
C3_PrimitiveOnceEveryCall ==
    /\ pc = "returned" => calls = 1
    /\ ErrorReturnedUnmodified

\* C3 amended: every call of waitpid invokes libc::waitpid at most once, and
\* exactly once unless pid.into() panics before the call (ProcessGroupID(2^31)
\* in a build that checks overflow); a negative result is returned as the
\* error of errno, undecoded.
C3_PrimitiveOnceUnlessIntoPanics ==
    /\ calls <= 1
    /\ pc = "answered" => calls = 1
    /\ pc = "returned" => (calls = 1 \/ (raw_pid.panic /\ ret = Panic))
    /\ ErrorReturnedUnmodified

C3_Witness ==
    /\ pc = "returned" /\ calls = 1
    /\ res = -1 /\ errno = "EINTR"
    /\ ret = Err("EINTR")

StillAliveIffZero ==
    /\ res = 0 => (ret = Ok(StillAlive) /\ decoded = NotDecoded)
    /\ ret.val = StillAlive => res = 0

====
